---- MODULE Spec2Model ----
(***************************************************************************)
(* Model of the godmorgon gateway (src/application.py), of its             *)
(* configuration (src/configuration.py), of the bikes service              *)
(* (src/src/bikes/bikes.py, src/src/bikes/microservice.py,                 *)
(* src/utils/utils.py) and of the geocoding and the weather service        *)
(* (src/src/weather/weather.py, src/src/weather/microservice.py).          *)
(*                                                                         *)
(* Python values are represented as follows:                               *)
(*   dict            a function whose DOMAIN is the set of keys            *)
(*   tuple / list    a sequence                                            *)
(*   None            the string None (no str of the model equals it)       *)
(*   httpx.Response  a record [kind, status_code, body, exc, msg] with     *)
(*                   kind = "response"; body is the set of the keys of the *)
(*                   JSON object it carries                                *)
(*   an exception    the same record with kind = "exception", exc the      *)
(*                   class name and msg the value of str(e)                *)
(*   time            integer ticks of the wall clock `now`                 *)
(***************************************************************************)
EXTENDS Integers, Sequences, FiniteSets, TLC

VARIABLES
    now,            \* wall clock (ticks)
    \* ---- health_endpoint (src/application.py:75-140) ----
    hPc,            \* "idle" | "awaiting" | "returned" | "raised"
    health,         \* the `health` dict of the handler
    hIdx,           \* position of the for loop in MICROSERVICES_CONFIG (0 = not started)
    hInflight,      \* names of the services whose health request is in flight
    hCalls,         \* every request issued by the handler, in issue order
    hOutcomes,      \* what send_request returned or raised, per loop position
    hStart,         \* value of `now` when the handler started
    hResponse,      \* the JSONResponse returned, or NoResponse
    \* ---- dashboard_data (src/application.py:152-214) ----
    dPc,            \* "idle" | "await_bikes" | "await_weather" | "returned" | "raised"
    dTimestamp,     \* local `timestamp`
    dInflight,      \* sub-requests in flight
    dCalls,         \* every request issued by the handler, in issue order
    dOutcomes,      \* what send_request returned or raised, per sub-request awaited
    bike_response,  \* local `bike_response`, or NoOutcome
    weather_response, \* local `weather_response`, or NoOutcome
    dResult,        \* what the handler returned or raised
    \* ---- get_nearest_stations (src/src/bikes/bikes.py:40-61) ----
    stations_info,  \* the station records the call fetched from INFO_URL
    stations_status, \* the status records the call fetched from STATUS_URL
    location,       \* argument `location`, <<lat, lon>>
    n,              \* argument `n`
    nPc,            \* "idle" | "called" | "fetch_info" | "fetch_status" | "done"
    nResult,        \* what the call returned or raised
    \* ---- _geocode_address (src/src/weather/weather.py:32-90) ----
    geoUpstream,    \* what requests.get(BAN_API_URL, ...) produces
    geoPc,          \* "idle" | "called" | "done"
    geoResult,      \* what the call returned or raised
    geoCalls,       \* number of requests issued to the geocoding endpoint
    \* ---- bikes service (src/src/bikes/microservice.py, bikes.py) ----
    srcUp,          \* the station endpoints (INFO_URL, STATUS_URL) are reachable
    srcData,        \* what the station endpoints serve at present: [info, status]
    bRequests,      \* number of /get_address_nearest_stations requests handled
    bFetches,       \* number of requests.get issued, per station endpoint
    bReads,         \* what each call of get_stations_info returned or raised
    bResponse,      \* outcome of the last /get_address_nearest_stations request
    bPc,            \* "idle" | "geocoding" | "nearest" | "done"
    bDue,           \* time since the request arrived at which the upstream request
                    \* pending completes; when done, at which the response was ready
    \* ---- weather service (src/src/weather/microservice.py, weather.py) ----
    wResult,        \* what get_weather returned or raised in the last request
    wPc,            \* "idle" | "geocoding" | "requesting" | "done"
    wDue,           \* as bDue, for the weather service
    wGeo,           \* local `address_info` of get_weather
    wResponse,      \* the response of the last /get_weather_info request
    weatherNames,   \* the names the module src/src/weather/weather.py defines
    \* ---- format_stations_info (src/src/bikes/bikes.py:64-91) ----
    fGiven,         \* the info and status records as they were selected
    fRecords,       \* the same record objects, as they are now
    fResults        \* what each call of format_stations_info returned or raised

gwVars == <<now, hPc, health, hIdx, hInflight, hCalls, hOutcomes, hStart, hResponse>>
dbVars == <<dPc, dTimestamp, dInflight, dCalls, dOutcomes, bike_response,
            weather_response, dResult>>
fmtVars == <<fGiven, fRecords, fResults>>
nsVars == <<stations_info, stations_status, location, n, nPc, nResult, fmtVars>>
geoVars == <<geoUpstream, geoPc, geoResult, geoCalls>>
\* the variables of the services behind the gateway
bikeVars == <<srcUp, srcData, bRequests, bFetches, bReads, bResponse, bPc, bDue>>
weatherVars == <<wResult, wPc, wDue, wGeo, wResponse, weatherNames>>
svcVars == <<geoVars, bikeVars, weatherVars>>

-----------------------------------------------------------------------------
(* Python primitives *)

None == "<None>"

Digits == <<"0", "1", "2", "3", "4", "5", "6", "7", "8", "9">>

\* str(v) of a non-negative int v: its decimal digits
RECURSIVE Str(_)
Str(v) == IF v < 10 THEN Digits[v + 1]
          ELSE Str(v \div 10) \o Digits[(v % 10) + 1]

\* d[k] = v on a dict
DictSet(d, k, v) == [x \in (DOMAIN d) \cup {k} |-> IF x = k THEN v ELSE d[x]]

EmptyDict == [x \in {} |-> None]

Response(code, body) ==
    [kind |-> "response", status_code |-> code, body |-> body, exc |-> "", msg |-> ""]

Raised(exc, msg) ==
    [kind |-> "exception", status_code |-> 0, body |-> {}, exc |-> exc, msg |-> msg]

NoOutcome == [kind |-> "none", status_code |-> 0, body |-> {}, exc |-> "", msg |-> ""]

-----------------------------------------------------------------------------
(* The imports that run before a service can serve a request *)

\* the names src/src/weather/weather.py defines (its defs and assignments)
WEATHER_NAMES ==
    {"BAN_API_URL", "WEATHER_URL", "WEATHER_INFO", "TIMEOUT",
     "ADDRESS_SEARCH_CONFIDENCE_THRESHOLD", "_geocode_address", "_request_weather",
     "_format_weather_data", "get_weather"}

\* the module as written, and the module with the name the bikes service asks
\* for bound to _geocode_address; only in the second does the bikes service, or
\* the gateway, which imports it, serve a request
WeatherNamespaces == {WEATHER_NAMES, WEATHER_NAMES \cup {"geocode_address"}}

\* from <module> import <name>
ImportFrom(names, name) == IF name \in names THEN "ok" ELSE "ImportError"

\* src/src/bikes/microservice.py:18, from src.weather.weather import geocode_address
BikesMicroserviceImport(names) == ImportFrom(names, "geocode_address")

\* src/src/weather/microservice.py:18, from src.weather.weather import get_weather
WeatherMicroserviceImport(names) == ImportFrom(names, "get_weather")

\* src/application.py:21-22: the gateway imports the two service modules
ApplicationImport(names) ==
    IF BikesMicroserviceImport(names) # "ok" THEN BikesMicroserviceImport(names)
    ELSE WeatherMicroserviceImport(names)

-----------------------------------------------------------------------------
(* src/configuration.py *)

TIMEOUT == 5

HEALTH_ENDPOINT == "/health"

\* SERVICES['microservices'], in the insertion order of the dict
MICROSERVICES_CONFIG ==
    << [key |-> "weather", name |-> "weather-microservice", port |-> 8001,
        timeout |-> TIMEOUT],
       [key |-> "bikes", name |-> "bikes-microservice", port |-> 8002,
        timeout |-> TIMEOUT] >>

GATEWAY_NAME == "application-gateway"

\* HealthStatus.STATUS_CODES.value
STATUS_CODES ==
    (200 :> "healthy") @@ (400 :> "bad request") @@ (408 :> "timeout")
        @@ (500 :> "internal error") @@ (520 :> "down")

\* health_status.get(status_code): dict.get without a default
HealthStatusGet(status_code) ==
    IF status_code \in DOMAIN STATUS_CODES THEN STATUS_CODES[status_code] ELSE None

\* MICROSERVICES_CONFIG.get(k)
ConfigGet(k) ==
    LET i == CHOOSE j \in 1..Len(MICROSERVICES_CONFIG) : MICROSERVICES_CONFIG[j].key = k
    IN  MICROSERVICES_CONFIG[i]

-----------------------------------------------------------------------------
(* The backends, seen from the gateway: what one send_request can produce *)

\* HTTP statuses a backend may answer with (mapped and unmapped ones)
StatusCodes == {200, 400, 404, 408, 500, 503, 520}

\* exceptions httpx raises out of send_request, with their str()
TimeoutErrors == {Raised("ReadTimeout", ""), Raised("ConnectTimeout", "")}
TransportErrors == {Raised("ConnectError", "All connection attempts failed")}

\* JSON bodies: the payload of the endpoint, or an error object {"detail": ...}
HealthBody == {"status", "timestamp", "service"}
BikesBody == {"nearest_stations"}
WeatherBody == {"coordinates", "address", "public_weather_api_runtime_ms", "time",
                "temperature", "is_day", "timezone", "wind_direction", "wind_speed",
                "weather_code"}
DetailBody == {"detail"}

\* utils.url: the leading '/' of the method is dropped
url(host, port, method) ==
    [host |-> host, port |-> port,
     path |-> IF method = HEALTH_ENDPOINT THEN "health" ELSE method]

\* send_request(request_url, timeout, params): what can come back
SendRequestOutcomes(payload) ==
    {Response(c, b) : c \in StatusCodes, b \in {payload, DetailBody}}
        \cup TimeoutErrors \cup TransportErrors

\* httpx.AsyncClient(timeout=timeout) limits each phase of a request (connect,
\* each read of the response), not the request: a response arrives in at most
\* MaxPhases phases, each within the timeout; a connect timeout is raised when
\* the timeout has elapsed, a read timeout when a later phase has lasted the
\* timeout; a connection error is raised within the connect phase
MaxPhases == 2

SendRequestDurations(outcome, timeout) ==
    IF outcome = Raised("ConnectTimeout", "") THEN {timeout}
    ELSE IF outcome = Raised("ReadTimeout", "") THEN timeout..(MaxPhases * timeout)
    ELSE IF outcome \in TransportErrors THEN 1..timeout
    ELSE 1..(MaxPhases * timeout)

-----------------------------------------------------------------------------
(* health_endpoint, src/application.py:75-140 *)

NoResponse == [status_code |-> 0, content |-> EmptyDict]

\* lines 104-119: the request of one loop iteration
\* (awaited: the requests of this invocation that had completed when it was issued)
HealthCall(service_config, awaited) ==
    [name |-> service_config.name,
     request_url |-> url("localhost", service_config.port, HEALTH_ENDPOINT),
     timeout |-> service_config.timeout,
     awaited |-> awaited]

\* the names of the services of loop positions 1..i
ServiceNames(i) == {MICROSERVICES_CONFIG[j].name : j \in 1..i}

\* `except (Exception, )` at line 125: every exception send_request raises is an
\* Exception, and is caught
ExceptionClasses == {"ReadTimeout", "ConnectTimeout", "ConnectError", "AssertionError"}

\* (mutation: `except httpx.TimeoutException`, only timeouts are caught)
HealthCatches_TimeoutsOnly(e) == e.exc \in {"ReadTimeout", "ConnectTimeout"}

HealthCatches(e) == e.exc \in ExceptionClasses

\* (mutation: the table is looked up with the str of the status, which is no key)
HealthValue_StrKey(outcome) ==
    IF outcome.kind = "response"
    THEN <<Str(outcome.status_code), None>>
    ELSE <<"Unhealthy", outcome.msg>>

\* lines 121-128: the value recorded for one service
HealthValue(outcome) ==
    IF outcome.kind = "response"
    THEN <<Str(outcome.status_code), HealthStatusGet(outcome.status_code)>>
    ELSE <<"Unhealthy", outcome.msg>>

\* (mutation: the status is set on both branches, so the last service decides)
GatewayStatusAfter_LastWins(status, value) == IF value[1] # "200" THEN 207 ELSE 200

\* (mutation: only a call that raised degrades the status)
GatewayStatusAfter_OnlyUnhealthy(status, value) ==
    IF value[1] = "Unhealthy" THEN 207 ELSE status

\* lines 133-135
GatewayStatusAfter(status, value) == IF value[1] # "200" THEN 207 ELSE status

\* lines 131-135: the health dict after one loop iteration
HealthRecord(h, name, value) ==
    [h EXCEPT !.microservices_health = DictSet(@, name, value),
              !.gateway_status = GatewayStatusAfter(@, value)]

\* lines 137-140
HealthJSONResponse(h) == [status_code |-> h.gateway_status, content |-> h]

\* (mutation: a service whose request failed is requested again)
HealthNextIdx_RetryOnFailure(idx, outcome) ==
    IF outcome.kind = "response" /\ outcome.status_code = 200 THEN idx + 1 ELSE idx

\* line 102: the for loop goes on to the next service whatever the outcome was
HealthNextIdx(idx, outcome) == idx + 1

\* lines 81-119: the handler up to its first await
HealthStart ==
    /\ ApplicationImport(weatherNames) = "ok"
    /\ hPc = "idle"
    /\ hStart' = now
    /\ health' = [gateway_service |-> GATEWAY_NAME,
                  gateway_status |-> 200,
                  timestamp |-> Str(now),
                  microservices_health |-> EmptyDict]
    /\ hOutcomes' = <<>>
    /\ IF Len(MICROSERVICES_CONFIG) = 0
       THEN /\ hPc' = "returned"
            /\ hResponse' = HealthJSONResponse(health')
            /\ UNCHANGED <<hIdx, hInflight, hCalls>>
       ELSE /\ hPc' = "awaiting"
            /\ hIdx' = 1
            /\ hInflight' = {MICROSERVICES_CONFIG[1].name}
            /\ hCalls' = <<HealthCall(MICROSERVICES_CONFIG[1], {})>>
            /\ UNCHANGED hResponse
    /\ UNCHANGED now
    /\ UNCHANGED <<dbVars, nsVars, svcVars>>

\* lines 116-140: the await of iteration hIdx completes (returns or raises); the
\* handler records the value and runs to the next await, or to its return
HealthResume ==
    /\ hPc = "awaiting"
    /\ \E outcome \in SendRequestOutcomes(HealthBody) :
       \E d \in SendRequestDurations(outcome, MICROSERVICES_CONFIG[hIdx].timeout) :
         LET name == MICROSERVICES_CONFIG[hIdx].name
             h2 == HealthRecord(health, name, HealthValue(outcome))
         IN  /\ now' = now + d
             /\ hOutcomes' = Append(hOutcomes, outcome)
             /\ IF outcome.kind = "exception" /\ ~HealthCatches(outcome)
                THEN \* an exception the except clause does not catch leaves the handler
                     /\ hPc' = "raised"
                     /\ hInflight' = {}
                     /\ UNCHANGED <<health, hIdx, hCalls, hResponse>>
                ELSE IF HealthNextIdx(hIdx, outcome) <= Len(MICROSERVICES_CONFIG)
                THEN /\ health' = h2
                     /\ hIdx' = HealthNextIdx(hIdx, outcome)
                     /\ hInflight' = {MICROSERVICES_CONFIG[hIdx'].name}
                     /\ hCalls' = Append(hCalls,
                            HealthCall(MICROSERVICES_CONFIG[hIdx'], ServiceNames(hIdx)))
                     /\ UNCHANGED <<hPc, hResponse>>
                ELSE /\ health' = h2
                     /\ hPc' = "returned"
                     /\ hInflight' = {}
                     /\ hResponse' = HealthJSONResponse(h2)
                     /\ UNCHANGED <<hIdx, hCalls>>
    /\ UNCHANGED hStart
    /\ UNCHANGED <<dbVars, nsVars, svcVars>>

-----------------------------------------------------------------------------
(* dashboard_data, src/application.py:152-214 *)

NoResult == [kind |-> "none", exc |-> "", args |-> <<>>, payload |-> EmptyDict]

\* lines 171-182 and 191-202: one sub-request
\* (awaited: the sub-requests that had completed when it was issued)
DashboardCall(key, method, awaited) ==
    [key |-> key,
     request_url |-> url("localhost", ConfigGet(key).port, method),
     timeout |-> ConfigGet(key).timeout,
     awaited |-> awaited]

\* (SubRequestRaises_NoStatusCheck is the mutation without the assert of lines 184, 204)
\* what leaves a try block of the handler (lines 170-188, 190-208): the response,
\* or the exception that is logged and re-raised unchanged
\*   - send_request raised: that exception
\*   - the assert on status_code failed: AssertionError('Request failed')
SubRequestRaises_NoStatusCheck(outcome) ==
    IF outcome.kind = "exception" THEN outcome ELSE NoOutcome

SubRequestRaises(outcome) ==
    IF outcome.kind = "exception" THEN outcome
    ELSE IF outcome.status_code # 200 THEN Raised("AssertionError", "Request failed")
    ELSE NoOutcome

\* pydantic: NearestStationsResponse(**body) and WeatherResponse(**body) need
\* every field that has no default
NearestStationsResponseValid(body) == {"nearest_stations"} \subseteq body

\* (mutation: the weather body is passed on without validation)
WeatherResponseValid_Unchecked(body) == TRUE

WeatherResponseValid(body) ==
    {"coordinates", "public_weather_api_runtime_ms", "time", "temperature", "is_day",
     "wind_direction", "wind_speed", "weather_code"} \subseteq body

\* (mutation: the timestamp is taken when the response is built)
ResponseTimestamp_AtReturn(captured, current) == current

\* line 211: timestamp=timestamp, the value captured at line 162
ResponseTimestamp(captured, current) == captured

\* lines 210-214
DashboardReturn(timestamp, bikes, weather) ==
    IF NearestStationsResponseValid(bikes.body) /\ WeatherResponseValid(weather.body)
    THEN [kind |-> "return", exc |-> "", args |-> <<>>,
          payload |-> [timestamp |-> Str(timestamp),
                       bikes_info |-> bikes.body,
                       weather_info |-> weather.body]]
    ELSE \* pydantic's ValidationError carries no args
         [kind |-> "raise", exc |-> "ValidationError", args |-> <<>>,
          payload |-> EmptyDict]

\* `raise e` at lines 188 and 208: the exception caught leaves the handler unchanged
DashboardRaise(e) ==
    [kind |-> "raise", exc |-> e.exc, args |-> <<e.msg>>, payload |-> EmptyDict]

\* lines 162-182: the handler up to its first await
DashboardStart ==
    /\ ApplicationImport(weatherNames) = "ok"
    /\ dPc = "idle"
    /\ dTimestamp' = now
    /\ dPc' = "await_bikes"
    /\ dInflight' = {"bikes"}
    /\ dCalls' = <<DashboardCall("bikes", "get_address_nearest_stations", {})>>
    /\ UNCHANGED <<dOutcomes, bike_response, weather_response, dResult>>
    /\ UNCHANGED <<gwVars, nsVars, svcVars>>

\* lines 171-202: the bikes await completes; on success the handler runs to the
\* weather await
DashboardBikesStep(outcome, d) ==
    /\ dPc = "await_bikes"
    /\ now' = now + d
    /\ dOutcomes' = DictSet(dOutcomes, "bikes", outcome)
    /\ IF SubRequestRaises(outcome) # NoOutcome
       THEN /\ dPc' = "raised"
            /\ dResult' = DashboardRaise(SubRequestRaises(outcome))
            /\ dInflight' = {}
            /\ UNCHANGED <<bike_response, dCalls>>
       ELSE /\ bike_response' = outcome
            /\ dPc' = "await_weather"
            /\ dInflight' = {"weather"}
            /\ dCalls' = Append(dCalls,
                   DashboardCall("weather", "get_weather_info", {"bikes"}))
            /\ UNCHANGED dResult
    /\ UNCHANGED <<dTimestamp, weather_response>>
    /\ UNCHANGED <<hPc, health, hIdx, hInflight, hCalls, hOutcomes, hStart, hResponse>>

\* the bikes await completes with anything send_request can produce
DashboardBikesResume ==
    /\ \E outcome \in SendRequestOutcomes(BikesBody) :
       \E d \in SendRequestDurations(outcome, ConfigGet("bikes").timeout) :
          DashboardBikesStep(outcome, d)
    /\ UNCHANGED <<nsVars, svcVars>>

\* lines 191-214: the weather await completes; on success the handler returns
DashboardWeatherStep(outcome, d) ==
    /\ dPc = "await_weather"
    /\ now' = now + d
    /\ dOutcomes' = DictSet(dOutcomes, "weather", outcome)
    /\ dInflight' = {}
    /\ IF SubRequestRaises(outcome) # NoOutcome
       THEN /\ dPc' = "raised"
            /\ dResult' = DashboardRaise(SubRequestRaises(outcome))
            /\ UNCHANGED weather_response
       ELSE /\ weather_response' = outcome
            /\ dResult' = DashboardReturn(ResponseTimestamp(dTimestamp, now'),
                                           bike_response, outcome)
            /\ dPc' = IF dResult'.kind = "return" THEN "returned" ELSE "raised"
    /\ UNCHANGED <<dTimestamp, bike_response, dCalls>>
    /\ UNCHANGED <<hPc, health, hIdx, hInflight, hCalls, hOutcomes, hStart, hResponse>>

\* the weather await completes with anything send_request can produce
DashboardWeatherResume ==
    /\ \E outcome \in SendRequestOutcomes(WeatherBody) :
       \E d \in SendRequestDurations(outcome, ConfigGet("weather").timeout) :
          DashboardWeatherStep(outcome, d)
    /\ UNCHANGED <<nsVars, svcVars>>

\* the wall clock advances while the gateway handles no dashboard request
MaxIdleTicks == 2

Tick ==
    /\ dPc = "idle"
    /\ now < MaxIdleTicks
    /\ now' = now + 1
    /\ UNCHANGED <<hPc, health, hIdx, hInflight, hCalls, hOutcomes, hStart, hResponse>>
    /\ UNCHANGED <<dbVars, nsVars, svcVars>>

-----------------------------------------------------------------------------
(* distance and max_n, src/utils/utils.py:34-65 *)

\* largest r with r * r <= x
ISqrt(x) == CHOOSE r \in 0..x : r * r <= x /\ x < (r + 1) * (r + 1)

\* distance(a, b, p=2) = np.linalg.norm(a - b, ord=2), in hundredths: the square
\* root of the sum of the squared coordinate differences
distance(a, b) ==
    ISqrt(10000 * ((a[1] - b[1]) * (a[1] - b[1]) + (a[2] - b[2]) * (a[2] - b[2])))

\* arrays are sequences; an index of the model is the numpy index plus one
Reverse(seq) == [i \in 1..Len(seq) |-> seq[Len(seq) + 1 - i]]

\* the arrangements of m distinct elements of S
Arrangements(S, m) ==
    {t \in [1..m -> S] : \A i, j \in 1..m : i # j => t[i] # t[j]}

\* np.argpartition(a=arr, kth=-m)[-m:] for 1 <= m <= len(arr): the element at
\* position kth is the one a sort would put there, no element before it is
\* greater and no element after it is smaller; the order inside the two parts is
\* not specified
ArgPartitionTails(arr, m) ==
    {t \in Arrangements(DOMAIN arr, m) :
        /\ \A j \in 1..m : arr[t[1]] <= arr[t[j]]
        /\ \A i \in DOMAIN arr :
              (\A j \in 1..m : t[j] # i) => arr[i] <= arr[t[1]]}

\* np.argsort(values), default kind (not stable): the permutations that put the
\* values in non-decreasing order
ArgSorts(values) ==
    {p \in Arrangements(DOMAIN values, Len(values)) :
        \A i \in 1..(Len(values) - 1) : values[p[i]] <= values[p[i + 1]]}

\* (mutation: the reversal of lines 60-61 is dropped)
MaxNOrder_NoReverse(indices, descending) == indices

\* lines 60-61
MaxNOrder(indices, descending) == IF descending THEN Reverse(indices) ELSE indices

\* max_n(arr, n, descending): the results it can produce
\*   m <= 0           two empty float arrays (np.array([]))
\*   arr empty        np.argpartition checks kth on no element: two empty arrays,
\*                    the indices of integer type
\*   m > len(arr)     np.argpartition raises ValueError (kth out of bounds)
MaxN(arr, m, descending) ==
    IF m <= 0
    THEN {[kind |-> "return", exc |-> "", values |-> <<>>, indices |-> <<>>,
           dtype |-> "float64"]}
    ELSE IF Len(arr) = 0
    THEN {[kind |-> "return", exc |-> "", values |-> <<>>, indices |-> <<>>,
           dtype |-> "int64"]}
    ELSE IF m > Len(arr)
    THEN {[kind |-> "raise", exc |-> "ValueError", values |-> <<>>, indices |-> <<>>,
           dtype |-> ""]}
    ELSE UNION {
           {LET sorted == [i \in 1..m |-> t[p[i]]]
                indices == MaxNOrder(sorted, descending)
            IN  [kind |-> "return", exc |-> "",
                 values |-> [i \in 1..m |-> arr[indices[i]]],
                 indices |-> indices, dtype |-> "int64"]
              : p \in ArgSorts([i \in 1..m |-> arr[t[i]]])}
           : t \in ArgPartitionTails(arr, m)}

-----------------------------------------------------------------------------
(* get_nearest_stations, src/src/bikes/bikes.py:40-61 *)

NoStations == [kind |-> "none", exc |-> "", indices |-> <<>>, info |-> <<>>,
               status |-> <<>>]

\* lines 52-56
Distances(info, loc) ==
    [i \in 1..Len(info) |-> distance(loc, <<info[i].lat, info[i].lon>>)]

Negated(arr) == [i \in DOMAIN arr |-> 0 - arr[i]]

\* line 61: np.asarray(s)[indices]; a float array is no index, and an index
\* beyond the array is out of bounds (IndexError both)
Take(s, r) == [i \in 1..Len(r.indices) |-> s[r.indices[i]]]

NearestRaise(exc) ==
    [kind |-> "raise", exc |-> exc, indices |-> <<>>, info |-> <<>>, status |-> <<>>]

\* lines 50-61: the results the call can produce on the two lists it fetched
GetNearestStations(info, status, loc, m) ==
    {IF r.kind = "raise"
     THEN NearestRaise(r.exc)
     ELSE IF r.dtype # "int64"
     THEN NearestRaise("IndexError")
     ELSE IF \E i \in 1..Len(r.indices) : r.indices[i] > Len(status)
     THEN NearestRaise("IndexError")
     ELSE [kind |-> "return", exc |-> "", indices |-> r.indices,
           info |-> Take(info, r), status |-> Take(status, r)]
       : r \in MaxN(Negated(Distances(info, loc)), m, TRUE)}

\* lines 30-35: one requests.get(url).json()["data"]["stations"] of
\* get_stations_info, on what the endpoint serves when it answers
StationsRequest(up, served) ==
    IF up
    THEN [kind |-> "return", exc |-> "", stations |-> served]
    ELSE [kind |-> "raise", exc |-> "ConnectionError", stations |-> <<>>]

\* what a call of get_stations_info returned or raised
GetStationsInfo(info, status) ==
    [kind |-> "return", exc |-> "", info |-> info, status |-> status]

GetStationsInfoRaise(exc) ==
    [kind |-> "raise", exc |-> exc, info |-> <<>>, status |-> <<>>]

\* lines 40-48 and 30-32: get_nearest_stations(loc, m) calls get_stations_info,
\* which requests INFO_URL and blocks
GetNearestStationsBegin(loc, m) ==
    /\ location' = loc
    /\ n' = m
    /\ stations_info' = <<>>
    /\ stations_status' = <<>>
    /\ nResult' = NoStations
    /\ nPc' = "fetch_info"
    /\ bFetches' = [bFetches EXCEPT !.info = @ + 1]
    /\ UNCHANGED bReads

\* lines 30-35: INFO_URL answers with what the endpoint serves then, or the
\* request fails; on an answer get_stations_info requests STATUS_URL and blocks
GetStationsInfoFirst ==
    /\ nPc = "fetch_info"
    /\ LET r == StationsRequest(srcUp, srcData.info)
       IN  IF r.kind = "raise"
           THEN /\ nResult' = NearestRaise(r.exc)
                /\ nPc' = "done"
                /\ bReads' = Append(bReads, GetStationsInfoRaise(r.exc))
                /\ UNCHANGED <<stations_info, bFetches>>
           ELSE /\ stations_info' = r.stations
                /\ nPc' = "fetch_status"
                /\ bFetches' = [bFetches EXCEPT !.status = @ + 1]
                /\ UNCHANGED <<nResult, bReads>>
    /\ UNCHANGED <<location, n, stations_status>>

\* lines 30-37 and 48-61: STATUS_URL answers with what the endpoint serves then,
\* or the request fails; on an answer get_nearest_stations runs to its return
GetStationsInfoSecond ==
    /\ nPc = "fetch_status"
    /\ LET r == StationsRequest(srcUp, srcData.status)
       IN  IF r.kind = "raise"
           THEN /\ nResult' = NearestRaise(r.exc)
                /\ bReads' = Append(bReads, GetStationsInfoRaise(r.exc))
                /\ UNCHANGED stations_status
           ELSE /\ stations_status' = r.stations
                /\ bReads' = Append(bReads, GetStationsInfo(stations_info, r.stations))
                /\ \E near \in GetNearestStations(stations_info, r.stations, location, n) :
                      nResult' = near
    /\ nPc' = "done"
    /\ UNCHANGED <<location, n, stations_info, bFetches>>

\* what a call of get_nearest_stations outside a request leaves alone
NearestFrame ==
    /\ UNCHANGED <<srcUp, srcData, bRequests, bResponse, bPc, bDue>>
    /\ UNCHANGED <<fmtVars, gwVars, dbVars, geoVars, weatherVars>>

\* a call of get_nearest_stations(location, n), up to its first request
GetNearestStationsCall ==
    /\ nPc = "called"
    /\ GetNearestStationsBegin(location, n)
    /\ NearestFrame

\* its request of INFO_URL completes
GetNearestStationsInfoFetched ==
    /\ bPc = "idle"
    /\ GetStationsInfoFirst
    /\ NearestFrame

\* its request of STATUS_URL completes, and the call returns or raises
GetNearestStationsStatusFetched ==
    /\ bPc = "idle"
    /\ GetStationsInfoSecond
    /\ NearestFrame

\* the station data and the arguments of a call
MaxStations == 3
MaxLat == 1

Points == (0..MaxLat) \X {0, 1}

StationLists ==
    UNION {[1..len -> Points] : len \in 0..MaxStations}

InfoOf(points) ==
    [i \in 1..Len(points) |-> [station_id |-> i, lat |-> points[i][1], lon |-> points[i][2]]]

StatusOf(points) == [i \in 1..Len(points) |-> [station_id |-> i]]

-----------------------------------------------------------------------------
(* _geocode_address, src/src/weather/weather.py:32-90, and the exceptions of   *)
(* src/utils/errors.py. Scores and the threshold are in thousandths, a         *)
(* confidence (a score rounded to 2 decimals) is in hundredths. The geocoding  *)
(* endpoint answers with a JSON object.                                        *)

\* ADDRESS_SEARCH_CONFIDENCE_THRESHOLD = 0.9
ADDRESS_SEARCH_CONFIDENCE_THRESHOLD == 900

NoGeocode ==
    [kind |-> "none", exc |-> "", status_code |-> 0, confidence_score |-> 0,
     threshold |-> 0, latitude |-> 0, longitude |-> 0, postcode |-> "", type |-> ""]

\* a match of the geocoding endpoint: features[0]
Feature(score, lat, lon) ==
    [geometry |-> [coordinates |-> <<lon, lat>>],
     properties |-> ("score" :> score) @@ ("postcode" :> "75011")
                        @@ ("_type" :> "housenumber")]

\* np.around(score, 2): the nearest hundredth; a score half-way between two
\* hundredths goes to either, depending on its binary representation
Around2(score) ==
    IF score % 10 < 5 THEN {score \div 10}
    ELSE IF score % 10 > 5 THEN {(score \div 10) + 1}
    ELSE {score \div 10, (score \div 10) + 1}

\* lines 50-62: invalid_response
GeocodeInvalid(status, content) ==
    IF status # 200 \/ "features" \notin DOMAIN content
    THEN TRUE
    ELSE IF "features" \in DOMAIN content
         THEN content["features"] = <<>>
         ELSE FALSE

GeocodeRaise(exc, status) ==
    [kind |-> "raise", exc |-> exc, status_code |-> status, confidence_score |-> 0,
     threshold |-> 0, latitude |-> 0, longitude |-> 0, postcode |-> "", type |-> ""]

\* lines 76-90: the confidence check and the return, for a rounded confidence
GeocodeChecked(feature, confidence) ==
    IF confidence * 10 < ADDRESS_SEARCH_CONFIDENCE_THRESHOLD
    THEN \* GeocodeConfidenceError sets status_code=200 (errors.py:78)
         [kind |-> "raise", exc |-> "GeocodeConfidenceError", status_code |-> 200,
          confidence_score |-> confidence,
          threshold |-> ADDRESS_SEARCH_CONFIDENCE_THRESHOLD,
          latitude |-> 0, longitude |-> 0, postcode |-> "", type |-> ""]
    ELSE IF ~({"postcode", "_type"} \subseteq DOMAIN feature.properties)
    THEN \* lines 88-89 read properties['postcode'] and properties['_type']
         GeocodeRaise("KeyError", 0)
    ELSE [kind |-> "return", exc |-> "", status_code |-> 0,
          confidence_score |-> confidence, threshold |-> 0,
          latitude |-> feature.geometry.coordinates[2],
          longitude |-> feature.geometry.coordinates[1],
          postcode |-> feature.properties["postcode"],
          type |-> feature.properties["_type"]]

\* lines 64-68: features[0] is read, then its geometry and its score
GeocodeFeature(feature) ==
    IF "geometry" \notin DOMAIN feature \/ "properties" \notin DOMAIN feature
    THEN {GeocodeRaise("KeyError", 0)}
    ELSE IF "score" \notin DOMAIN feature.properties
    THEN {GeocodeRaise("KeyError", 0)}
    ELSE {GeocodeChecked(feature, confidence) :
             confidence \in Around2(feature.properties["score"])}

\* lines 37-90: the results the call can produce on what requests.get produced.
\* Line 47 decodes the body before the status is looked at: a body that is not
\* JSON raises JSONDecodeError whatever the status. On a JSON value that is not
\* an object, line 52 raises TypeError for null ('features' not in None) and
\* looks for the string among the items of an array; line 56 then indexes the
\* array with the string (TypeError).
GeocodeAddress(upstream) ==
    IF upstream.kind = "exception"
    THEN {GeocodeRaise(upstream.exc, 0)}
    ELSE IF upstream.body = "text"
    THEN {GeocodeRaise("JSONDecodeError", 0)}
    ELSE IF upstream.status_code # 200
    THEN {GeocodeRaise("GeocodeInvalidResponse", upstream.status_code)}
    ELSE IF upstream.body = "null"
    THEN {GeocodeRaise("TypeError", 0)}
    ELSE IF upstream.body = "array"
    THEN IF \A i \in 1..Len(upstream.items) : upstream.items[i] # "features"
         THEN {GeocodeRaise("GeocodeInvalidResponse", upstream.status_code)}
         ELSE {GeocodeRaise("TypeError", 0)}
    ELSE IF GeocodeInvalid(upstream.status_code, upstream.content)
    THEN {GeocodeRaise("GeocodeInvalidResponse", upstream.status_code)}
    ELSE IF "features" \notin DOMAIN upstream.content
    THEN {GeocodeRaise("KeyError", 0)}
    ELSE IF upstream.content["features"] = <<>>
    THEN {GeocodeRaise("IndexError", 0)}
    ELSE GeocodeFeature(upstream.content["features"][1])

\* what requests.get(BAN_API_URL, ..., timeout=TIMEOUT) can produce
GeoStatusCodes == {200, 400, 500}

Scores == 0..1000

\* a response: its status and its body, which is a JSON object (`content`), a
\* JSON array of strings (`items`), JSON null, or text that is not JSON
GeoBody(status, body, content, items) ==
    [kind |-> "response", status_code |-> status, body |-> body,
     content |-> content, items |-> items, exc |-> ""]

\* a response whose body is the JSON object `content`
GeoResponse(status, content) == GeoBody(status, "object", content, <<>>)

\* the JSON objects: empty, without a match, with a match that lacks its
\* geometry, with a match of any score
GeoContents ==
    {EmptyDict, [features |-> <<>>],
     [features |-> <<[properties |-> Feature(950, 0, 0).properties]>>]}
        \cup {[features |-> <<Feature(score, 0, 0)>>] : score \in Scores}

\* the answers: a JSON object, text that is not JSON, JSON null, a JSON array
\* (empty, or holding the string 'features'), or an exception of requests.get
GeoUpstreamOutcomes ==
    {GeoResponse(status, content) : status \in GeoStatusCodes, content \in GeoContents}
        \cup {GeoBody(status, b.body, EmptyDict, b.items) :
                 status \in GeoStatusCodes,
                 b \in {[body |-> "text", items |-> <<>>],
                        [body |-> "null", items |-> <<>>],
                        [body |-> "array", items |-> <<>>],
                        [body |-> "array", items |-> <<"features">>]}}
        \cup {[kind |-> "exception", status_code |-> 0, body |-> "", content |-> EmptyDict,
               items |-> <<>>, exc |-> "ConnectTimeout"]}

\* one call of _geocode_address(address)
GeocodeAddressCall ==
    /\ geoPc = "called"
    /\ \E g \in GeocodeAddress(geoUpstream) : geoResult' = g
    /\ geoPc' = "done"
    /\ geoCalls' = geoCalls + 1
    /\ UNCHANGED geoUpstream
    /\ UNCHANGED <<gwVars, dbVars, nsVars, bikeVars, weatherVars>>

-----------------------------------------------------------------------------
(* The bikes service: get_stations_info and format_stations_info               *)
(* (src/src/bikes/bikes.py) and the handler get_address_nearest_stations       *)
(* (src/src/bikes/microservice.py:86-106). The handler calls geocode_address, *)
(* imported from src.weather.weather, where the function is named             *)
(* _geocode_address: as written the import fails and the handler never runs;  *)
(* where the name is bound, it is bound to that function.                     *)
(* A DataFrame is the sequence of its rows, each a dict.                       *)

DROP_COLUMNS_STATION_INFO ==
    {"rental_methods", "station_opening_hours", "numBikesAvailable",
     "numDocksAvailable", "is_installed", "is_returning", "last_reported"}

\* default of the argument n of get_nearest_stations
NearestDefaultN == 3

\* dict without some keys
DictRemove(d, keys) == [k \in DOMAIN d \ keys |-> d[k]]

\* d.update(u)
DictUpdate(d, u) ==
    [k \in DOMAIN d \cup DOMAIN u |-> IF k \in DOMAIN u THEN u[k] ELSE d[k]]

\* lines 74-83: the merged record of one station
MergedStation(station, status) ==
    LET types == status["num_bikes_available_types"]
        withBikes == DictUpdate(station, [mechanical |-> types[1]["mechanical"],
                                          electrical |-> types[2]["ebike"]])
    IN  DictUpdate(withBikes, DictRemove(status, {"num_bikes_available_types"}))

\* lines 76-79: what stops the loop at one station, "" if nothing does
StationFault(station, status) ==
    IF station["station_id"] # status["station_id"] THEN "AssertionError"
    ELSE IF "num_bikes_available_types" \notin DOMAIN status THEN "KeyError"
    ELSE ""

\* lines 64-91: format_stations_info on the selected records
FormatStationsInfo(info, status) ==
    LET len == IF Len(info) < Len(status) THEN Len(info) ELSE Len(status)
        faulty == {i \in 1..len : StationFault(info[i], status[i]) # ""}
        data == [i \in 1..len |-> MergedStation(info[i], status[i])]
        columns == UNION {DOMAIN data[i] : i \in 1..len}
    IN  IF faulty # {}
        THEN LET first == CHOOSE i \in faulty : \A j \in faulty : i <= j
             IN  [kind |-> "raise", exc |-> StationFault(info[first], status[first]),
                  rows |-> <<>>]
        ELSE IF ~(DROP_COLUMNS_STATION_INFO \subseteq columns)
        THEN [kind |-> "raise", exc |-> "KeyError", rows |-> <<>>]
        ELSE [kind |-> "return", exc |-> "",
              rows |-> [i \in 1..len |-> DictRemove(data[i], DROP_COLUMNS_STATION_INFO)]]

\* lines 74-83: the record objects after a call of format_stations_info. The
\* arrays hold references to the dicts, so the loop changes the dicts it is
\* given: every station before the one that stops the loop has been merged
\* into its info record and has lost 'num_bikes_available_types' in its status
\* record; the assert and the pop raise before they change anything.
FormatStationsInfoAfter(info, status) ==
    LET len == IF Len(info) < Len(status) THEN Len(info) ELSE Len(status)
        faulty == {i \in 1..len : StationFault(info[i], status[i]) # ""}
        stop == IF faulty = {} THEN len + 1
                ELSE CHOOSE i \in faulty : \A j \in faulty : i <= j
    IN  [info |-> [i \in 1..Len(info) |->
                      IF i < stop THEN MergedStation(info[i], status[i]) ELSE info[i]],
         status |-> [i \in 1..Len(status) |->
                      IF i < stop
                      THEN DictRemove(status[i], {"num_bikes_available_types"})
                      ELSE status[i]]]

\* the datasets the station endpoints can serve: stations on a line, at
\* latitudes 0, 1, ...; `bad` is the position where the status record carries
\* the id of another station (0: none); `version` tells two datasets apart
MaxLineStations == 4

Datasets ==
    {[bad |-> b, version |-> 1] : b \in 0..MaxLineStations}
        \cup {[bad |-> 0, version |-> 2]}

InfoStation(id, lat) ==
    [station_id |-> id, name |-> "station", lat |-> lat, lon |-> 0, capacity |-> 20,
     rental_methods |-> "CREDITCARD", station_opening_hours |-> None]

StatusStation(id) ==
    [station_id |-> id,
     num_bikes_available_types |-> <<[mechanical |-> 1], [ebike |-> 2]>>,
     num_bikes_available |-> 3, numBikesAvailable |-> 3,
     num_docks_available |-> 4, numDocksAvailable |-> 4,
     is_installed |-> 1, is_returning |-> 1, is_renting |-> 1, last_reported |-> 0]

DatasetInfo(data) ==
    [i \in 1..MaxLineStations |-> InfoStation(10 * data.version + i, i - 1)]

DatasetStatus(data) ==
    [i \in 1..MaxLineStations |->
        StatusStation(IF i = data.bad THEN 0 ELSE 10 * data.version + i)]

\* what the station endpoints serve while `data` is published
Served(data) == [info |-> DatasetInfo(data), status |-> DatasetStatus(data)]

NoBikesResponse == [kind |-> "none", exc |-> "", status_code |-> 0, nearest_stations |-> <<>>]

BikesRaise(exc) ==
    \* an exception the handler does not catch: the service answers 500
    [kind |-> "raise", exc |-> exc, status_code |-> 500, nearest_stations |-> <<>>]

\* microservice.py:101-106 on what get_nearest_stations returned or raised
NearestStationsResponse(near) ==
    IF near.kind = "raise"
    THEN BikesRaise(near.exc)
    ELSE LET df == FormatStationsInfo(near.info, near.status)
         IN  IF df.kind = "raise"
             THEN BikesRaise(df.exc)
             ELSE [kind |-> "return", exc |-> "", status_code |-> 200,
                   nearest_stations |-> df.rows]

\* the answers of the geocoding endpoint to the addresses of the requests
GeoAnswers ==
    {GeoResponse(200, [features |-> <<Feature(950, lat, 0)>>]) :
        lat \in {0, MaxLineStations - 1}}
      \cup {GeoResponse(200, [features |-> <<Feature(500, 0, 0)>>]),
            GeoResponse(200, [features |-> <<>>]),
            GeoResponse(500, EmptyDict)}

MaxRequests == 3

\* the time an upstream endpoint takes to answer a request of a service
MaxDelay == 3
Delays == {1, MaxDelay}

\* what a step of the bikes handler leaves alone
BikesFrame ==
    /\ UNCHANGED <<srcUp, srcData>>
    /\ UNCHANGED <<geoUpstream, geoPc, geoResult>>
    /\ UNCHANGED <<fmtVars, gwVars, dbVars, weatherVars>>

\* microservice.py:86-99: GET /get_address_nearest_stations arrives (the handler
\* blocks the event loop of the service: one request at a time); the handler
\* requests the geocoding of the address and blocks
GetAddressNearestStationsReceived ==
    /\ BikesMicroserviceImport(weatherNames) = "ok"
    /\ bPc \in {"idle", "done"}
    /\ nPc \in {"idle", "done"}
    /\ bRequests < MaxRequests
    /\ bRequests' = bRequests + 1
    /\ geoCalls' = geoCalls + 1
    /\ bPc' = "geocoding"
    /\ \E d \in Delays : bDue' = d
    /\ bResponse' = NoBikesResponse
    /\ UNCHANGED <<bFetches, bReads>>
    /\ UNCHANGED <<stations_info, stations_status, location, n, nPc, nResult>>
    /\ BikesFrame

\* microservice.py:99-101: the geocoding endpoint answers; the handler fails, or
\* calls get_nearest_stations, which requests INFO_URL and blocks
GetAddressNearestStationsGeocoded ==
    /\ bPc = "geocoding"
    /\ \E answer \in GeoAnswers : \E geo \in GeocodeAddress(answer) :
          IF geo.kind = "raise"
          THEN /\ bResponse' = BikesRaise(geo.exc)
               /\ bPc' = "done"
               /\ UNCHANGED <<bDue, bFetches, bReads>>
               /\ UNCHANGED <<stations_info, stations_status, location, n, nPc, nResult>>
          ELSE /\ GetNearestStationsBegin(<<geo.latitude, geo.longitude>>, NearestDefaultN)
               /\ bPc' = "nearest"
               /\ \E d \in Delays : bDue' = bDue + d
               /\ UNCHANGED bResponse
    /\ UNCHANGED <<bRequests, geoCalls>>
    /\ BikesFrame

\* bikes.py:30-35 inside the handler: INFO_URL answers or fails; on an answer
\* the handler blocks on STATUS_URL
GetAddressNearestStationsInfoFetched ==
    /\ bPc = "nearest"
    /\ GetStationsInfoFirst
    /\ IF nPc' = "done"
       THEN /\ bResponse' = BikesRaise(nResult'.exc)
            /\ bPc' = "done"
            /\ UNCHANGED bDue
       ELSE /\ \E d \in Delays : bDue' = bDue + d
            /\ UNCHANGED <<bResponse, bPc>>
    /\ UNCHANGED <<bRequests, geoCalls>>
    /\ BikesFrame

\* microservice.py:101-106: STATUS_URL answers or fails, and the handler runs to
\* its outcome
GetAddressNearestStationsStatusFetched ==
    /\ bPc = "nearest"
    /\ GetStationsInfoSecond
    /\ bResponse' = NearestStationsResponse(nResult')
    /\ bPc' = "done"
    /\ UNCHANGED <<bDue, bRequests, geoCalls>>
    /\ BikesFrame

\* GET /get_address_nearest_stations on the bikes service, step by step
GetAddressNearestStations ==
    \/ GetAddressNearestStationsReceived
    \/ GetAddressNearestStationsGeocoded
    \/ GetAddressNearestStationsInfoFetched
    \/ GetAddressNearestStationsStatusFetched

\* the station endpoints go down, come back, or publish another dataset
SourceChanges ==
    /\ \E up \in BOOLEAN, data \in Datasets :
          /\ <<up, Served(data)>> # <<srcUp, srcData>>
          /\ srcUp' = up
          /\ srcData' = Served(data)
    /\ UNCHANGED <<bRequests, bFetches, bReads, bResponse, bPc, bDue>>
    /\ UNCHANGED <<gwVars, dbVars, nsVars, geoVars, weatherVars>>

\* records selected out of a dataset, as get_nearest_stations returns them
\* (bikes.py:61): up to NearestDefaultN stations, in any order
Selections == UNION {Arrangements(1..MaxLineStations, m) : m \in 0..NearestDefaultN}

Selected(data, sel) ==
    [info |-> [i \in 1..Len(sel) |-> DatasetInfo(data)[sel[i]]],
     status |-> [i \in 1..Len(sel) |-> DatasetStatus(data)[sel[i]]]]

MaxJoins == 2

\* one call of format_stations_info on the selected records
FormatStationsInfoCall ==
    /\ Len(fResults) < MaxJoins
    /\ fResults' = Append(fResults, FormatStationsInfo(fRecords.info, fRecords.status))
    /\ fRecords' = FormatStationsInfoAfter(fRecords.info, fRecords.status)
    /\ UNCHANGED fGiven
    /\ UNCHANGED <<stations_info, stations_status, location, n, nPc, nResult>>
    /\ UNCHANGED <<gwVars, dbVars, svcVars>>

\* no call of format_stations_info
FormatIdle ==
    /\ fGiven = [info |-> <<>>, status |-> <<>>]
    /\ fRecords = fGiven
    /\ fResults = <<>>

\* the bikes service before any request
BikesHandlerIdle ==
    /\ bRequests = 0
    /\ bFetches = [info |-> 0, status |-> 0]
    /\ bReads = <<>>
    /\ bResponse = NoBikesResponse
    /\ bPc = "idle"
    /\ bDue = 0

BikesIdle ==
    /\ srcUp = TRUE
    /\ srcData = Served([bad |-> 0, version |-> 1])
    /\ BikesHandlerIdle

-----------------------------------------------------------------------------
(* The weather service: get_weather (src/src/weather/weather.py:93-166) and    *)
(* the handler get_weather_info (src/src/weather/microservice.py:97-118).     *)
(* A dict is given by the set of its keys.                                     *)

WEATHER_INFO ==
    {"current_weather", "generationtime_ms", "timezone_abbreviation",
     "temperature_2m", "precipitation", "weather_code"}

\* what requests.get(WEATHER_URL, ...) produces: the keys of the JSON object and
\* of its 'current_weather' object, or an exception
WeatherApiAnswers ==
    {[kind |-> "response", exc |-> "",
      keys |-> {"latitude", "longitude", "generationtime_ms", "utc_offset_seconds",
                "timezone", "timezone_abbreviation", "elevation",
                "current_weather_units", "current_weather"},
      current |-> {"time", "interval", "temperature", "windspeed", "winddirection",
                   "is_day", "weathercode"}],
     [kind |-> "response", exc |-> "",
      keys |-> {"latitude", "longitude", "generationtime_ms", "utc_offset_seconds",
                "timezone", "timezone_abbreviation", "elevation",
                "current_weather_units", "current_weather"},
      current |-> {"time", "interval", "windspeed", "winddirection", "weathercode"}],
     [kind |-> "exception", exc |-> "ConnectionError", keys |-> {}, current |-> {}]}

\* no answer: the weather API was not requested
NoWeatherApi == [kind |-> "none", exc |-> "", keys |-> {}, current |-> {}]

NoWeather == [kind |-> "none", exc |-> "", status_code |-> 0, keys |-> {}]

WeatherRaise(exc, status) ==
    [kind |-> "raise", exc |-> exc, status_code |-> status, keys |-> {}]

\* weather.py:108-131: the keys of weather_data after formatting
FormatWeatherData(keys, current) ==
    LET renamed == {"timezone_abbreviation", "winddirection", "windspeed", "weathercode"}
        popped == (keys \ {"generationtime_ms", "current_weather"})
                      \cup {"public_weather_api_runtime_ms"} \cup current
    IN  IF ~({"generationtime_ms", "current_weather"} \subseteq keys)
             \/ ~(({"time", "interval"} \cup renamed) \subseteq popped)
        THEN WeatherRaise("KeyError", 0)
        ELSE [kind |-> "return", exc |-> "", status_code |-> 0,
              keys |-> (popped \ ({"interval"} \cup renamed))
                          \cup {"timezone", "wind_direction", "wind_speed",
                                "weather_code"}]

\* weather.py:134-166: get_weather on the outcome of _geocode_address and the
\* answer of the weather API
GetWeather(geo, api) ==
    IF geo.kind = "raise" THEN WeatherRaise(geo.exc, geo.status_code)
    ELSE IF api.kind = "exception" THEN WeatherRaise(api.exc, 0)
    ELSE FormatWeatherData({"coordinates", "address"} \cup (api.keys \cap WEATHER_INFO),
                           api.current)

\* the subclasses of GeocodeException (src/utils/errors.py:45-78)
GeocodeExceptions == {"GeocodeInvalidResponse", "GeocodeConfidenceError"}

\* microservice.py:97-118: the response of GET /get_weather_info
GetWeatherInfo(geo, api) ==
    LET weather_data == GetWeather(geo, api)
    IN  IF weather_data.kind = "return"
        THEN \* response_model=WeatherResponse (line 96): a returned dict that lacks
             \* a required field is answered 500 without a JSON object
             IF WeatherResponseValid(weather_data.keys)
             THEN Response(200, weather_data.keys)
             ELSE Response(500, {})
        ELSE IF weather_data.exc \in GeocodeExceptions
        THEN Response(weather_data.status_code, DetailBody)
        ELSE Response(500, DetailBody)

\* the response of GET /get_address_nearest_stations as the gateway receives it;
\* an exception the handler does not catch is answered 500 without a JSON object
BikesHttpResponse(response) ==
    IF response.kind = "return" THEN Response(200, {"nearest_stations"})
    ELSE Response(500, {})

\* the weather service before any request
WeatherIdle ==
    /\ wResult = NoWeather
    /\ wPc = "idle"
    /\ wDue = 0
    /\ wGeo = NoGeocode
    /\ wResponse = NoOutcome

\* what a step of the weather handler leaves alone
WeatherFrame ==
    /\ UNCHANGED weatherNames
    /\ UNCHANGED <<geoUpstream, geoPc, geoResult>>
    /\ UNCHANGED <<gwVars, dbVars, nsVars, bikeVars>>

\* microservice.py:97-107 and weather.py:134-145: GET /get_weather_info arrives;
\* get_weather requests the geocoding of the address and blocks
GetWeatherInfoReceived ==
    /\ WeatherMicroserviceImport(weatherNames) = "ok"
    /\ wPc \in {"idle", "done"}
    /\ geoCalls' = geoCalls + 1
    /\ wPc' = "geocoding"
    /\ \E d \in Delays : wDue' = d
    /\ wGeo' = NoGeocode
    /\ wResult' = NoWeather
    /\ wResponse' = NoOutcome
    /\ WeatherFrame

\* weather.py:139-158: the geocoding endpoint answers; the handler answers the
\* failure, or get_weather requests the weather API and blocks
GetWeatherInfoGeocoded ==
    /\ wPc = "geocoding"
    /\ \E answer \in GeoAnswers : \E geo \in GeocodeAddress(answer) :
          /\ wGeo' = geo
          /\ IF geo.kind = "raise"
             THEN /\ wResult' = GetWeather(geo, NoWeatherApi)
                  /\ wResponse' = GetWeatherInfo(geo, NoWeatherApi)
                  /\ wPc' = "done"
                  /\ UNCHANGED wDue
             ELSE /\ wPc' = "requesting"
                  /\ \E d \in Delays : wDue' = wDue + d
                  /\ UNCHANGED <<wResult, wResponse>>
    /\ UNCHANGED geoCalls
    /\ WeatherFrame

\* weather.py:158-166 and microservice.py:107-118: the weather API answers or
\* fails, and the handler runs to its response
GetWeatherInfoAnswered ==
    /\ wPc = "requesting"
    /\ \E api \in WeatherApiAnswers :
          /\ wResult' = GetWeather(wGeo, api)
          /\ wResponse' = GetWeatherInfo(wGeo, api)
    /\ wPc' = "done"
    /\ UNCHANGED <<wDue, wGeo, geoCalls>>
    /\ WeatherFrame

\* the gateway's sub-request reaches the bikes service
BikesServiceReceives ==
    /\ dPc = "await_bikes"
    /\ bPc = "idle"
    /\ GetAddressNearestStationsReceived

\* the bikes service goes on with the request, whether or not the gateway still
\* waits for it; a step due after the gateway's timeout comes after it
BikesServiceSteps ==
    /\ ~(dPc = "await_bikes" /\ bDue >= ConfigGet("bikes").timeout)
    /\ \/ GetAddressNearestStationsGeocoded
       \/ GetAddressNearestStationsInfoFetched
       \/ GetAddressNearestStationsStatusFetched

\* send_request (utils.py:286-303): the gateway's await completes with the
\* response of the bikes service, ready before the timeout
GatewayBikesAnswered ==
    /\ bPc = "done"
    /\ bDue <= ConfigGet("bikes").timeout
    /\ DashboardBikesStep(BikesHttpResponse(bResponse), bDue)
    /\ UNCHANGED <<nsVars, svcVars>>

\* send_request: no response within the timeout, the await raises ReadTimeout
GatewayBikesTimedOut ==
    /\ bPc # "idle"
    /\ bDue >= ConfigGet("bikes").timeout
    /\ DashboardBikesStep(Raised("ReadTimeout", ""), ConfigGet("bikes").timeout)
    /\ UNCHANGED <<nsVars, svcVars>>

\* the gateway's sub-request reaches the weather service
WeatherServiceReceives ==
    /\ dPc = "await_weather"
    /\ wPc = "idle"
    /\ GetWeatherInfoReceived

\* the weather service goes on with the request
WeatherServiceSteps ==
    /\ ~(dPc = "await_weather" /\ wDue >= ConfigGet("weather").timeout)
    /\ \/ GetWeatherInfoGeocoded
       \/ GetWeatherInfoAnswered

\* the gateway's await completes with the response of the weather service
GatewayWeatherAnswered ==
    /\ wPc = "done"
    /\ wDue <= ConfigGet("weather").timeout
    /\ DashboardWeatherStep(wResponse, wDue)
    /\ UNCHANGED <<nsVars, svcVars>>

\* no response within the timeout: the await raises ReadTimeout
GatewayWeatherTimedOut ==
    /\ wPc # "idle"
    /\ wDue >= ConfigGet("weather").timeout
    /\ DashboardWeatherStep(Raised("ReadTimeout", ""), ConfigGet("weather").timeout)
    /\ UNCHANGED <<nsVars, svcVars>>

-----------------------------------------------------------------------------
(* Specifications *)

vars == <<now, hPc, health, hIdx, hInflight, hCalls, hOutcomes, hStart, hResponse,
          dPc, dTimestamp, dInflight, dCalls, dOutcomes, bike_response,
          weather_response, dResult,
          stations_info, stations_status, location, n, nPc, nResult,
          geoUpstream, geoPc, geoResult, geoCalls,
          srcUp, srcData, bRequests, bFetches, bReads, bResponse, bPc, bDue,
          wResult, wPc, wDue, wGeo, wResponse, weatherNames,
          fGiven, fRecords, fResults>>

GatewayInit ==
    /\ now = 0
    /\ hPc = "idle"
    /\ health = [gateway_service |-> GATEWAY_NAME, gateway_status |-> 200,
                 timestamp |-> None, microservices_health |-> EmptyDict]
    /\ hIdx = 0
    /\ hInflight = {}
    /\ hCalls = <<>>
    /\ hOutcomes = <<>>
    /\ hStart = 0
    /\ hResponse = NoResponse
    /\ dPc = "idle"
    /\ dTimestamp = 0
    /\ dInflight = {}
    /\ dCalls = <<>>
    /\ dOutcomes = EmptyDict
    /\ bike_response = NoOutcome
    /\ weather_response = NoOutcome
    /\ dResult = NoResult

\* no call of get_nearest_stations
NearestIdle ==
    /\ stations_info = <<>>
    /\ stations_status = <<>>
    /\ location = <<0, 0>>
    /\ n = 3
    /\ nPc = "idle"
    /\ nResult = NoStations
    /\ FormatIdle

\* a call of get_nearest_stations(location, n)
NearestCalled ==
    /\ stations_info = <<>>
    /\ stations_status = <<>>
    /\ location \in Points
    /\ n \in (0 - 1)..(MaxStations + 1)
    /\ nPc = "called"
    /\ nResult = NoStations
    /\ FormatIdle

\* no call of _geocode_address
GeocodeIdle ==
    /\ geoUpstream = GeoResponse(200, EmptyDict)
    /\ geoPc = "idle"
    /\ geoResult = NoGeocode
    /\ geoCalls = 0

\* the services behind the gateway before any request
ServicesIdle == GeocodeIdle /\ BikesIdle /\ WeatherIdle

Init ==
    /\ GatewayInit
    /\ NearestIdle
    /\ ServicesIdle
    /\ weatherNames \in WeatherNamespaces

\* one GET /health on the gateway
NextHealth == HealthStart \/ HealthResume
SpecHealth == Init /\ [][NextHealth]_vars

\* one GET /get_dashboard_data on the gateway
NextDashboard == DashboardStart \/ DashboardBikesResume \/ DashboardWeatherResume
SpecDashboard == Init /\ [][NextDashboard]_vars

\* one GET /get_dashboard_data that arrives at any time
NextDashboardTimed == Tick \/ NextDashboard
SpecDashboardTimed == Init /\ [][NextDashboardTimed]_vars

\* the gateway handling one request, a GET /health or a GET /get_dashboard_data
NextGateway == (dPc = "idle" /\ NextHealth) \/ (hPc = "idle" /\ NextDashboard)
SpecGateway == Init /\ [][NextGateway]_vars

\* one call of get_nearest_stations in the bikes service
InitNearest ==
    /\ GatewayInit
    /\ NearestCalled
    /\ GeocodeIdle
    /\ srcUp \in BOOLEAN
    /\ \E points \in StationLists :
          srcData = [info |-> InfoOf(points), status |-> StatusOf(points)]
    /\ BikesHandlerIdle
    /\ WeatherIdle
    /\ weatherNames = WEATHER_NAMES
NextNearest ==
    \/ GetNearestStationsCall
    \/ GetNearestStationsInfoFetched
    \/ GetNearestStationsStatusFetched
SpecNearest == InitNearest /\ [][NextNearest]_vars

\* one call of _geocode_address on an answer of the geocoding endpoint
InitGeocode ==
    /\ GatewayInit
    /\ NearestIdle
    /\ geoUpstream \in GeoUpstreamOutcomes
    /\ geoPc = "called"
    /\ geoResult = NoGeocode
    /\ geoCalls = 0
    /\ BikesIdle
    /\ WeatherIdle
    /\ weatherNames = WEATHER_NAMES
NextGeocode == GeocodeAddressCall
SpecGeocode == InitGeocode /\ [][NextGeocode]_vars

\* requests to the bikes service while the station endpoints change
InitBikes ==
    /\ GatewayInit
    /\ NearestIdle
    /\ GeocodeIdle
    /\ srcUp \in BOOLEAN
    /\ \E data \in Datasets : srcData = Served(data)
    /\ BikesHandlerIdle
    /\ WeatherIdle
    /\ weatherNames \in WeatherNamespaces
NextBikes == GetAddressNearestStations \/ SourceChanges
SpecBikes == InitBikes /\ [][NextBikes]_vars

\* calls of format_stations_info on records selected out of a dataset
InitFormat ==
    /\ GatewayInit
    /\ ServicesIdle
    /\ stations_info = <<>>
    /\ stations_status = <<>>
    /\ location = <<0, 0>>
    /\ n = NearestDefaultN
    /\ nPc = "idle"
    /\ nResult = NoStations
    /\ \E data \in Datasets : \E sel \in Selections : fGiven = Selected(data, sel)
    /\ fRecords = fGiven
    /\ fResults = <<>>
    /\ weatherNames = WEATHER_NAMES
NextFormat == FormatStationsInfoCall
SpecFormat == InitFormat /\ [][NextFormat]_vars

\* one GET /get_dashboard_data served by the gateway and the two services,
\* whatever the station endpoints serve
NextSystem ==
    \/ DashboardStart
    \/ BikesServiceReceives
    \/ BikesServiceSteps
    \/ GatewayBikesAnswered
    \/ GatewayBikesTimedOut
    \/ WeatherServiceReceives
    \/ WeatherServiceSteps
    \/ GatewayWeatherAnswered
    \/ GatewayWeatherTimedOut
    \/ SourceChanges
SpecSystem == InitBikes /\ [][NextSystem]_vars

-----------------------------------------------------------------------------
(* Properties of the health rollup *)

IsHttp200(o) == o.kind = "response" /\ o.status_code = 200

\* the entry recorded for the service of loop position i
HealthEntry(i) == health.microservices_health[MICROSERVICES_CONFIG[i].name]

HealthMaxTimeout ==
    CHOOSE t \in {MICROSERVICES_CONFIG[i].timeout : i \in 1..Len(MICROSERVICES_CONFIG)} :
        \A i \in 1..Len(MICROSERVICES_CONFIG) : MICROSERVICES_CONFIG[i].timeout <= t

\* C1: when the health rollup has returned, gateway_status (and the HTTP status of
\* the response) is 207 iff at least one backend's outcome is not a received
\* HTTP 200 response, and 200 otherwise.
C1_GatewayStatus207IffSomeBackendNot200 ==
    hPc = "returned" =>
        LET degraded == \E i \in 1..Len(hOutcomes) : ~IsHttp200(hOutcomes[i])
        IN  /\ Len(hOutcomes) = Len(MICROSERVICES_CONFIG)
            /\ hResponse.status_code = (IF degraded THEN 207 ELSE 200)
            /\ hResponse.content.gateway_status = hResponse.status_code

\* C1 witness: a rollup returned 207 although the last backend answered 200
C1_Witness ==
    /\ hPc = "returned"
    /\ hResponse.status_code = 207
    /\ ~IsHttp200(hOutcomes[1])
    /\ IsHttp200(hOutcomes[Len(hOutcomes)])

\* C2: the health rollup never fails because of a backend: whatever the outcomes,
\* it never raises, it can always go on until it returns, the per-backend map
\* holds exactly one entry per backend processed, keyed by its name, and a backend
\* whose call raised is recorded as "Unhealthy" in the map.
C2_HealthNeverRaisesOneEntryPerBackend ==
    /\ hPc # "raised"
    /\ hPc = "awaiting" => ENABLED HealthResume
    /\ DOMAIN health.microservices_health = ServiceNames(Len(hOutcomes))
    /\ \A i \in 1..Len(hOutcomes) :
          hOutcomes[i].kind = "exception" => HealthEntry(i)[1] = "Unhealthy"
    /\ hPc = "returned" =>
          /\ DOMAIN hResponse.content.microservices_health
                = ServiceNames(Len(MICROSERVICES_CONFIG))
          /\ Cardinality(DOMAIN hResponse.content.microservices_health)
                = Len(MICROSERVICES_CONFIG)

\* C2 witness: a rollup returned after one backend timed out and another one could
\* not be connected to
C2_Witness ==
    /\ hPc = "returned"
    /\ \E i, j \in 1..Len(hOutcomes) :
          /\ hOutcomes[i] \in TimeoutErrors
          /\ hOutcomes[j] \in TransportErrors

\* C4: the per-backend calls of one rollup are concurrent: each call is issued
\* before any other call of the rollup has completed, and the rollup returns
\* within the largest per-call timeout.
C4_HealthCallsConcurrent ==
    /\ \A i \in 1..Len(hCalls) : hCalls[i].awaited = {}
    /\ hPc = "returned" => now - hStart <= HealthMaxTimeout

\* the label of the fixed table for a status
C7_Label(status_code) ==
    CASE status_code = 200 -> "healthy"
      [] status_code = 400 -> "bad request"
      [] status_code = 408 -> "timeout"
      [] status_code = 500 -> "internal error"
      [] status_code = 520 -> "down"

\* C7: the entry recorded for a backend that answered with a status of the fixed
\* table carries the label of the table for that status, and the entry of a
\* backend whose call timed out or hit a transport error is "Unhealthy" with the
\* detail of the error.
C7_EntryCarriesTableLabelOrUnhealthy ==
    \A i \in 1..Len(hOutcomes) :
        LET o == hOutcomes[i]
        IN  /\ (o.kind = "response" /\ o.status_code \in {200, 400, 408, 500, 520})
                  => HealthEntry(i)[2] = C7_Label(o.status_code)
            /\ o.kind = "exception" => HealthEntry(i) = <<"Unhealthy", o.msg>>

\* C7 witness: one backend answered 500 and is recorded "internal error", another
\* one failed to connect and is recorded "Unhealthy" with the detail
C7_Witness ==
    /\ hPc = "returned"
    /\ \E i, j \in 1..Len(hOutcomes) :
          /\ hOutcomes[i].kind = "response" /\ hOutcomes[i].status_code = 500
          /\ HealthEntry(i)[2] = "internal error"
          /\ hOutcomes[j] \in TransportErrors
          /\ HealthEntry(j) = <<"Unhealthy", "All connection attempts failed">>

\* C8: for a backend that answered with a status that is not in the fixed table,
\* the label of its entry (the component that holds the table's label for the
\* mapped statuses) is the raw status code, not an absent label.
C8_UnmappedStatusLabelIsRawCode ==
    \A i \in 1..Len(hOutcomes) :
        LET o == hOutcomes[i]
        IN  (o.kind = "response" /\ o.status_code \notin {200, 400, 408, 500, 520})
                => /\ HealthEntry(i)[2] # None
                   /\ HealthEntry(i)[2] = Str(o.status_code)

-----------------------------------------------------------------------------
(* Properties of the dashboard request *)

\* C3: the dashboard returns a payload only when both sub-requests returned
\* HTTP 200; as soon as a sub-request has returned another status, timed out or
\* hit a transport error, the call has failed and carries no payload.
C3_DashboardPayloadOnlyIfBoth200 ==
    /\ dResult.kind = "return" =>
          /\ DOMAIN dOutcomes = {"bikes", "weather"}
          /\ \A k \in DOMAIN dOutcomes : IsHttp200(dOutcomes[k])
          /\ DOMAIN dResult.payload = {"timestamp", "bikes_info", "weather_info"}
    /\ (\E k \in DOMAIN dOutcomes : ~IsHttp200(dOutcomes[k])) =>
          /\ dPc = "raised"
          /\ dResult.kind = "raise"
          /\ dResult.payload = EmptyDict

\* C3 witness: bikes answered 200 with its payload, weather answered 500, and the
\* call failed
C3_Witness ==
    /\ dPc = "raised"
    /\ "weather" \in DOMAIN dOutcomes
    /\ IsHttp200(dOutcomes["bikes"])
    /\ dOutcomes["bikes"].body = BikesBody
    /\ dOutcomes["weather"].kind = "response"
    /\ dOutcomes["weather"].status_code = 500

\* C5: the two sub-requests of one dashboard call are concurrent: the weather
\* sub-request is issued before the bikes sub-request has completed, so that once
\* the bikes sub-request has completed, whatever its outcome, the weather
\* sub-request has been issued.
C5_DashboardSubRequestsConcurrent ==
    /\ \A i \in 1..Len(dCalls) : dCalls[i].awaited = {}
    /\ "bikes" \in DOMAIN dOutcomes => \E i \in 1..Len(dCalls) : dCalls[i].key = "weather"

\* C6: when a sub-request fails, the dashboard call fails with an UpstreamError
\* whose first argument names the sub-request that failed.
C6_FailureIsUpstreamErrorNamingSubRequest ==
    \A k \in DOMAIN dOutcomes :
        ~IsHttp200(dOutcomes[k]) =>
            /\ dResult.kind = "raise"
            /\ dResult.exc = "UpstreamError"
            /\ dResult.args[1] = k

-----------------------------------------------------------------------------
(* Properties of the nearest-station selection *)

\* the distance from the location of the call to station i
StationDistance(i) ==
    distance(location, <<stations_info[i].lat, stations_info[i].lon>>)

\* the call fetched the two station lists and ran to its return or raise
NearestFetched ==
    /\ nPc = "done"
    /\ bReads # <<>>
    /\ bReads[Len(bReads)].kind = "return"

\* C9: for 1 <= n <= number of stations, the selection returns exactly n distinct
\* stations, no station left out is nearer than a station returned, and the
\* stations are returned nearest first.
C9_ReturnsTheKNearestAscending ==
    (NearestFetched /\ 1 <= n /\ n <= Len(stations_info)) =>
        /\ nResult.kind = "return"
        /\ Len(nResult.info) = n
        /\ Len(nResult.status) = n
        /\ \A i \in 1..n :
              /\ nResult.indices[i] \in 1..Len(stations_info)
              /\ nResult.info[i] = stations_info[nResult.indices[i]]
              /\ nResult.status[i] = stations_status[nResult.indices[i]]
        /\ \A i, j \in 1..n : i # j => nResult.indices[i] # nResult.indices[j]
        /\ \A i \in 1..n : \A o \in 1..Len(stations_info) :
              (\A j \in 1..n : nResult.indices[j] # o)
                  => StationDistance(nResult.indices[i]) <= StationDistance(o)
        /\ \A i \in 1..(n - 1) :
              StationDistance(nResult.indices[i]) <= StationDistance(nResult.indices[i + 1])

\* C9 witness: two of three stations at different distances were asked for, and
\* the farthest station was left out
C9_Witness ==
    /\ nPc = "done"
    /\ n = 2
    /\ Len(stations_info) = 3
    /\ nResult.kind = "return"
    /\ StationDistance(nResult.indices[1]) < StationDistance(nResult.indices[2])
    /\ \E o \in 1..3 :
          /\ \A j \in 1..2 : nResult.indices[j] # o
          /\ StationDistance(nResult.indices[2]) < StationDistance(o)

\* C10: when n exceeds the number of stations, the selection does not fail and
\* returns all the stations, nearest first.
C10_KBeyondSizeReturnsAllSorted ==
    (NearestFetched /\ n > Len(stations_info)) =>
        /\ nResult.kind = "return"
        /\ Len(nResult.info) = Len(stations_info)
        /\ \A i \in 1..(Len(nResult.indices) - 1) :
              StationDistance(nResult.indices[i]) <= StationDistance(nResult.indices[i + 1])

\* C11: stations at equal distance keep their original index order: of two
\* returned stations at the same distance the one of lower index comes first, and
\* a station left out is never at the distance of a returned station of higher
\* index.
C11_TiesKeepIndexOrder ==
    (NearestFetched /\ nResult.kind = "return") =>
        LET idx == nResult.indices
        IN  /\ \A i, j \in 1..Len(idx) :
                  (i < j /\ StationDistance(idx[i]) = StationDistance(idx[j]))
                      => idx[i] < idx[j]
            /\ \A i \in 1..Len(idx) : \A o \in 1..Len(stations_info) :
                  ((\A j \in 1..Len(idx) : idx[j] # o)
                     /\ StationDistance(idx[i]) = StationDistance(o))
                      => idx[i] < o

\* C12: for n <= 0 the selection returns an empty result and does not fail.
C12_NonPositiveKReturnsEmpty ==
    (NearestFetched /\ n <= 0) =>
        /\ nResult.kind = "return"
        /\ nResult.info = <<>>
        /\ nResult.status = <<>>

-----------------------------------------------------------------------------
(* Properties of the geocoding *)

\* the answer of the geocoding endpoint is a 200 with a non-empty match list
GeoValidResponse ==
    /\ geoUpstream.kind = "response"
    /\ geoUpstream.status_code = 200
    /\ geoUpstream.body = "object"
    /\ "features" \in DOMAIN geoUpstream.content
    /\ geoUpstream.content["features"] # <<>>

GeoScore == geoUpstream.content["features"][1].properties["score"]

\* C16: on a valid response, geocoding fails with GeocodeConfidenceError iff the
\* score of the top match is below the threshold; the error has status code 200
\* and carries the score (to 2 decimals) and the threshold; a score at or above
\* the threshold succeeds.
C16_ConfidenceErrorIffScoreBelowThreshold ==
    (geoPc = "done" /\ GeoValidResponse) =>
        /\ (geoResult.kind = "raise" /\ geoResult.exc = "GeocodeConfidenceError")
              <=> GeoScore < ADDRESS_SEARCH_CONFIDENCE_THRESHOLD
        /\ GeoScore >= ADDRESS_SEARCH_CONFIDENCE_THRESHOLD => geoResult.kind = "return"
        /\ geoResult.kind = "raise" =>
              /\ geoResult.status_code = 200
              /\ geoResult.confidence_score \in Around2(GeoScore)
              /\ geoResult.threshold = ADDRESS_SEARCH_CONFIDENCE_THRESHOLD

\* the answer of the geocoding endpoint carries no non-empty match list
GeoNoMatch ==
    \/ geoUpstream.body # "object"
    \/ "features" \notin DOMAIN geoUpstream.content
    \/ geoUpstream.content["features"] = <<>>

\* C17: on every answer of the geocoding endpoint, geocoding fails with
\* GeocodeInvalidResponse, carrying the upstream status, exactly when the status
\* is not 200, or the answer has no 'features' key, or its 'features' list is
\* empty; the first match is never read from a missing or empty list and a
\* non-200 answer is never a confidence error.
C17_InvalidResponseIffNot200OrNoMatch ==
    (geoPc = "done" /\ geoUpstream.kind = "response") =>
        /\ (geoResult.kind = "raise" /\ geoResult.exc = "GeocodeInvalidResponse")
              <=> (geoUpstream.status_code # 200 \/ GeoNoMatch)
        /\ geoResult.exc = "GeocodeInvalidResponse"
              => geoResult.status_code = geoUpstream.status_code
        /\ GeoNoMatch => geoResult.exc \notin {"KeyError", "IndexError"}
        /\ geoUpstream.status_code # 200 => geoResult.exc # "GeocodeConfidenceError"

-----------------------------------------------------------------------------
(* Properties of the bikes service *)

\* the info and status arrays of a read disagree on station_id somewhere
ReadDisagrees(read) ==
    /\ read.kind = "return"
    /\ \E i \in 1..Len(read.info) : read.info[i].station_id # read.status[i].station_id

\* the last successful read before read k
LastGood(k) ==
    LET good == {j \in 1..(k - 1) : bReads[j].kind = "return"}
    IN  bReads[CHOOSE j \in good : \A o \in good : o <= j]

\* C13: across any sequence of nearest-station queries the station endpoints
\* are fetched successfully at most once (once a read has succeeded, no query
\* requests them again), and a read that follows a successful read returns the
\* identical snapshot.
C13_StationsFetchedAtMostOnce ==
    /\ [](\A k \in 1..(Len(bReads) - 1) :
             bReads[k].kind = "return" => bReads[k + 1] = bReads[k])
    /\ [][(\E k \in 1..Len(bReads) : bReads[k].kind = "return")
            => bFetches' = bFetches]_vars

\* C14: when the fetched info and status arrays disagree on station_id at any
\* position, the request that fetched them fails with the integrity error and
\* produces no station result.
C14_IdMismatchAnywhereFails ==
    [][(GetAddressNearestStations /\ Len(bReads') > Len(bReads)
          /\ ReadDisagrees(bReads'[Len(bReads')]))
        => (bResponse'.kind = "raise" /\ bResponse'.exc = "AssertionError"
              /\ bResponse'.nearest_stations = <<>>)]_vars

\* C15: a read that fails after an earlier read succeeded reports the failure,
\* and the read after it returns the stations of the last successful read.
C15_FailedFetchKeepsLastGoodSnapshot ==
    \A k \in 1..Len(bReads) :
        (bReads[k].kind = "raise" /\ \E j \in 1..(k - 1) : bReads[j].kind = "return")
            => /\ bReads[k].exc # ""
               /\ k < Len(bReads) =>
                     /\ bReads[k + 1].kind = "return"
                     /\ bReads[k + 1].info = LastGood(k).info
                     /\ bReads[k + 1].status = LastGood(k).status

-----------------------------------------------------------------------------
(* Properties of the gateway: timestamp and retries *)

\* C18: the timestamp of a successful dashboard response is the value captured
\* when the handler started, before any sub-request was issued, and no
\* completion of a sub-request changes the captured value.
C18_TimestampCapturedAtStart ==
    /\ [](dPc = "returned" => dResult.payload.timestamp = Str(dTimestamp))
    /\ [][dTimestamp' # dTimestamp
            => (dPc = "idle" /\ dCalls = <<>> /\ dTimestamp' = now)]_vars

\* C18 witness: a request that started after the clock had advanced returned,
\* later than it started, with the timestamp of its start
C18_Witness ==
    /\ dPc = "returned"
    /\ dTimestamp > 0
    /\ now > dTimestamp
    /\ Len(dCalls) = 2
    /\ dResult.payload.timestamp = Str(dTimestamp)

\* the calls of a handler to one backend
HealthCallsTo(name) == {k \in 1..Len(hCalls) : hCalls[k].name = name}

DashboardCallsTo(key) == {k \in 1..Len(dCalls) : dCalls[k].key = key}

\* C19: no retries. A health rollup issues at most one call to each configured
\* backend, and exactly one when it has returned; a dashboard call issues at
\* most one call to the bikes backend and at most one to the weather backend,
\* whatever the outcomes.
C19_NoRetries ==
    /\ \A i \in 1..Len(MICROSERVICES_CONFIG) :
          /\ Cardinality(HealthCallsTo(MICROSERVICES_CONFIG[i].name)) <= 1
          /\ hPc = "returned"
                => Cardinality(HealthCallsTo(MICROSERVICES_CONFIG[i].name)) = 1
    /\ Len(hCalls) <= Len(MICROSERVICES_CONFIG)
    /\ \A key \in {"bikes", "weather"} : Cardinality(DashboardCallsTo(key)) <= 1
    /\ Len(dCalls) <= 2

\* C19 witness: a health rollup returned after the call to its first backend
\* timed out and the second answered 503, with one call to each
C19_Witness ==
    /\ hPc = "returned"
    /\ Len(hOutcomes) = 2
    /\ hOutcomes[1] \in TimeoutErrors
    /\ hOutcomes[2].kind = "response"
    /\ hOutcomes[2].status_code = 503
    /\ Len(hCalls) = 2

\* C20: one dashboard call geocodes the address once: over its bikes path and
\* its weather path the geocoding endpoint is called at most one time.
C20_AddressGeocodedOncePerDashboardCall ==
    dPc # "idle" => geoCalls <= 1

-----------------------------------------------------------------------------
(* Properties of C21..C23 *)

\* the loop positions the health rollup has processed: their entry is recorded
HealthProcessed ==
    {i \in 1..Len(hOutcomes) :
        MICROSERVICES_CONFIG[i].name \in DOMAIN health.microservices_health}

\* C21: at every step of the health rollup gateway_status is 200 or 207; it is
\* 207 exactly when a backend already processed recorded an entry other than a
\* received HTTP 200; once 207, it stays 207 for the rest of the invocation.
C21_GatewayStatusMonotone ==
    /\ [](/\ health.gateway_status \in {200, 207}
          /\ health.gateway_status = 207
                <=> \E i \in HealthProcessed :
                       \/ ~IsHttp200(hOutcomes[i])
                       \/ HealthEntry(i)[1] # "200")
    /\ [][health.gateway_status = 207 => health'.gateway_status = 207]_vars

\* C21 witness: in the middle of a rollup, the first backend answered 404 and
\* the status is 207 while the second backend is awaited
C21_Witness ==
    /\ hPc = "awaiting"
    /\ hIdx = 2
    /\ HealthProcessed = {1}
    /\ hOutcomes[1].kind = "response"
    /\ hOutcomes[1].status_code = 404
    /\ health.gateway_status = 207

\* the weather service rejected the address at geocoding with an error whose
\* status code is 200
WeatherGeocodeRejected200 ==
    /\ wResult.kind = "raise"
    /\ wResult.exc \in GeocodeExceptions
    /\ wResult.status_code = 200

\* C22: when the weather service rejects the address at geocoding
\* (GeocodeConfidenceError, or GeocodeInvalidResponse on an upstream 200) after
\* the bikes sub-request answered 200, the weather sub-response reaches the
\* gateway (within the gateway's timeout) with status 200 and passes its status
\* check, and the dashboard call fails without returning a payload.
C22_GeocodeRejectionWith200StillFails ==
    (/\ WeatherGeocodeRejected200
     /\ "weather" \in DOMAIN dOutcomes
     /\ dOutcomes["weather"].kind = "response") =>
        /\ IsHttp200(dOutcomes["bikes"])
        /\ IsHttp200(dOutcomes["weather"])
        /\ dOutcomes["weather"].body = DetailBody
        /\ SubRequestRaises(dOutcomes["weather"]) = NoOutcome
        /\ weather_response = dOutcomes["weather"]
        /\ dPc = "raised"
        /\ dResult.kind = "raise"
        /\ dResult.payload = EmptyDict

\* C22 witness: bikes answered 200, the weather service raised
\* GeocodeConfidenceError, and the dashboard call failed on the 200 error body
C22_Witness ==
    /\ dPc = "raised"
    /\ "weather" \in DOMAIN dOutcomes
    /\ IsHttp200(dOutcomes["bikes"])
    /\ wResult.exc = "GeocodeConfidenceError"
    /\ IsHttp200(dOutcomes["weather"])
    /\ dResult.exc = "ValidationError"

\* C23: format_stations_info does not change the info and status records it is
\* given, whether it succeeds or aborts on a station_id mismatch, so joining the
\* same records again gives the same result.
C23_JoinLeavesRecordsUnchanged ==
    Len(fResults) >= 1 =>
        /\ fRecords = fGiven
        /\ \A k \in 1..Len(fResults) : fResults[k] = fResults[1]

====
